---------------------------- MODULE Spec2Model ----------------------------
(***************************************************************************)
(* Model of DateTimeFilter (GeoEDF connector filter plugin):               *)
(* __init__ validates and stores its keyword arguments, filter()           *)
(* parses start/end, realigns the start to the n-day grid of its year,     *)
(* enumerates the dates with the period and appends their formatted        *)
(* strings to self.values.                                                 *)
(*                                                                         *)
(* A Python value that may be None is a sequence of length 0 (None) or 1.  *)
(* A keyword argument that may be missing from kwargs is a sequence of     *)
(* length 0 (key not in kwargs) or 1 (its value, itself possibly None).    *)
(* A date string "mm/dd/yyyy[ hh:mm:ss]" is the record of its fields, a    *)
(* period string the sequence of its characters, a strftime pattern the    *)
(* sequence of its directives and literals.  A timestamp is a record       *)
(* [ord, sec]: proleptic Gregorian ordinal day and second of the day.      *)
(***************************************************************************)
EXTENDS Integers, Sequences, FiniteSets, TLC

VARIABLES kwargs,      \* the keyword arguments handed to __init__
          obj,         \* "new" | "constructed" | "failed" (__init__ raised)
          ctor_err,    \* the GeoEDFError __init__ raised, "none" otherwise
          self,        \* the attributes set by __init__
          values,      \* self.values
          calls,       \* number of filter() calls made on the object
          err,         \* the GeoEDFError the last filter() raised, "none" otherwise
          start_date,  \* filter()'s local start_date when it left (None: not set)
          all_dates    \* filter()'s local all_dates when it left

vars == <<kwargs, obj, ctor_err, self, values, calls, err, start_date, all_dates>>

\* filter() calls made on one object
MaxCalls == 2

---------------------------------------------------------------------------
(* Python values *)

None == <<>>
Some(v) == <<v>>
Val(x) == x[1]
IsNone(x) == x = <<>>

\* 'k' in kwargs
Has(kw, k) == kw[k] # <<>>
\* kwargs.get(k) / kwargs.get(k, None)
Get(kw, k) == IF Has(kw, k) THEN kw[k][1] ELSE None

Ok(v) == [ok |-> TRUE, val |-> v, exc |-> "none"]
Raise(e) == [ok |-> FALSE, val |-> None, exc |-> e]

---------------------------------------------------------------------------
(* The calendar of datetime / pandas.Timestamp *)

IsLeap(y) == y % 4 = 0 /\ (y % 100 # 0 \/ y % 400 = 0)

DaysInYear(y) == IF IsLeap(y) THEN 366 ELSE 365

DaysInMonth(y, m) ==
    IF m = 2 THEN (IF IsLeap(y) THEN 29 ELSE 28)
    ELSE IF m \in {4, 6, 9, 11} THEN 30 ELSE 31

RECURSIVE DaysBeforeMonth(_, _)
DaysBeforeMonth(y, m) ==
    IF m = 1 THEN 0 ELSE DaysBeforeMonth(y, m - 1) + DaysInMonth(y, m - 1)

DaysBeforeYear(y) ==
    (y - 1) * 365 + ((y - 1) \div 4) - ((y - 1) \div 100) + ((y - 1) \div 400)

\* date(y, m, d).toordinal()
ToOrdinal(y, m, d) == DaysBeforeYear(y) + DaysBeforeMonth(y, m) + d

YearOf(n) ==
    CHOOSE y \in (n \div 366)..(n \div 365 + 1) :
        DaysBeforeYear(y) < n /\ n <= DaysBeforeYear(y + 1)

\* int(strftime('%j'))
DayOfYear(n) == n - DaysBeforeYear(YearOf(n))

MonthOf(n) ==
    LET y == YearOf(n)
        j == n - DaysBeforeYear(y)
    IN CHOOSE m \in 1..12 :
           /\ DaysBeforeMonth(y, m) < j
           /\ j <= DaysBeforeMonth(y, m) + DaysInMonth(y, m)

DayOf(n) == DayOfYear(n) - DaysBeforeMonth(YearOf(n), MonthOf(n))

\* date.weekday(): Monday is 0, Sunday is 6
Weekday(n) == (n + 6) % 7

Moment(n, s) == [ord |-> n, sec |-> s]

Leq(a, b) == a.ord < b.ord \/ (a.ord = b.ord /\ a.sec <= b.sec)

Lt(a, b) == Leq(a, b) /\ a # b

AddDays(a, k) == Moment(a.ord + k, a.sec)


---------------------------------------------------------------------------
(* pd.to_datetime(s, format=...) and Timestamp.strftime(pattern) *)

\* pd.to_datetime(s, format='%m/%d/%Y %H:%M:%S') if has_time,
\* else pd.to_datetime(s, format='%m/%d/%Y'): the whole string must match
\* the format and denote a date of the calendar, else ValueError
ToDatetime(s, has_time) ==
    IF /\ has_time <=> (s.hms # <<>>)
       /\ s.mm \in 1..12
       /\ s.dd \in 1..DaysInMonth(s.yyyy, s.mm)
       /\ s.hms # <<>> => (s.hms[1] \in 0..23 /\ s.hms[2] \in 0..59 /\ s.hms[3] \in 0..59)
    THEN Ok(Moment(ToOrdinal(s.yyyy, s.mm, s.dd),
                   IF s.hms = <<>> THEN 0
                   ELSE s.hms[1] * 3600 + s.hms[2] * 60 + s.hms[3]))
    ELSE Raise("ValueError")

\* zero-padded decimal of width 2 and 3
Pad2(n) == IF n < 10 THEN "0" \o ToString(n) ELSE ToString(n)

Pad3(n) == IF n < 100 THEN "0" \o Pad2(n) ELSE ToString(n)

\* one directive or literal of a strftime pattern
Directive(dt, tok) ==
    CASE tok = "%Y" -> ToString(YearOf(dt.ord))
      [] tok = "%m" -> Pad2(MonthOf(dt.ord))
      [] tok = "%d" -> Pad2(DayOf(dt.ord))
      [] tok = "%j" -> Pad3(DayOfYear(dt.ord))
      [] tok = "%H" -> Pad2(dt.sec \div 3600)
      [] tok = "%M" -> Pad2((dt.sec % 3600) \div 60)
      [] tok = "%S" -> Pad2(dt.sec % 60)
      [] OTHER -> tok

\* dt.strftime(pattern) for a pattern that is a string
RECURSIVE Strftime(_, _)
Strftime(dt, pat) ==
    IF pat = <<>> THEN ""
    ELSE Directive(dt, Head(pat)) \o Strftime(dt, Tail(pat))

\* mutant: strftime also fails on timestamps after the sixth day of a year
StrftimeRaisesLater(dt, pattern) == IsNone(pattern) \/ DayOfYear(dt.ord) > 6

\* dt.strftime(self.pattern) raises TypeError when the pattern is not a
\* string (pattern=None), whatever the timestamp
StrftimeRaises(dt, pattern) == IsNone(pattern)

---------------------------------------------------------------------------
(* The period string *)

Digits == <<"0", "1", "2", "3", "4", "5", "6", "7", "8", "9">>

IsDigit(c) == \E i \in 1..10 : Digits[i] = c

DigitVal(c) == (CHOOSE i \in 1..10 : Digits[i] = c) - 1

\* period[-1:]
LastChar(chars) == IF chars = <<>> THEN "" ELSE chars[Len(chars)]

\* period[:-1]
ButLast(chars) == IF chars = <<>> THEN <<>> ELSE SubSeq(chars, 1, Len(chars) - 1)

RECURSIVE Decimal(_)
Decimal(ds) ==
    IF ds = <<>> THEN 0 ELSE Decimal(ButLast(ds)) * 10 + DigitVal(LastChar(ds))

AllDigits(ds) == ds # <<>> /\ \A i \in 1..Len(ds) : IsDigit(ds[i])

\* int(s): an optional sign and at least one digit, else ValueError
PyInt(chars) ==
    LET signed == chars # <<>> /\ chars[1] \in {"+", "-"}
        ds == IF signed THEN Tail(chars) ELSE chars
    IN IF ~AllDigits(ds) THEN Raise("ValueError")
       ELSE Ok(IF signed /\ chars[1] = "-" THEN 0 - Decimal(ds) ELSE Decimal(ds))

\* a % n of Python for a >= 0: the result has the sign of n
PyMod(a, n) ==
    IF n > 0 THEN a % n
    ELSE IF a % (0 - n) = 0 THEN 0 ELSE (a % (0 - n)) + n

\* math.ceil(a / n) for a >= 0, n > 0
Ceil(a, n) == (a + n - 1) \div n


---------------------------------------------------------------------------
(* Day-of-year alignment of the start date *)

\* mutant: floor in place of ceil
NewStartDayOfYearFloor(d, n) == ((d - 1) \div n) * n + 1

\* math.ceil((start_day_of_year - 1)/period_num) * period_num + 1
NewStartDayOfYear(d, n) == Ceil(d - 1, n) * n + 1

\* mutant: the ordinal day counted from 0
FromDayOfYearZeroBased(j, year) ==
    IF j \in 1..366 THEN Ok(Moment(ToOrdinal(year, 1, 1) + j, 0))
    ELSE Raise("ValueError")

\* pd.to_datetime('%d/%s' % (j, year), format='%j/%Y'): %j matches 1..366 only
\* (ValueError otherwise) and the date is ordinal day j counted from January 1
\* of the year, at midnight; day 366 of a year of 365 days is January 1 of the
\* next year
FromDayOfYear(j, year) ==
    IF j \in 1..366 THEN Ok(Moment(ToOrdinal(year, 1, 1) + (j - 1), 0))
    ELSE Raise("ValueError")

\* the block under "if (not self.exact_dates) and (self.period[-1:] == 'D')":
\* the start date filter() goes on with, or the exception raised
Align(sd, period, exact_dates) ==
    IF exact_dates THEN Ok(sd)
    ELSE IF IsNone(period) THEN Raise("TypeError")
    ELSE IF LastChar(Val(period)) # "D" THEN Ok(sd)
    ELSE LET period_num == PyInt(ButLast(Val(period)))
             start_day_of_year == DayOfYear(sd.ord)
         IN IF ~period_num.ok THEN Raise("ValueError")
            ELSE IF period_num.val = 0 THEN Raise("ZeroDivisionError")
            ELSE IF PyMod(start_day_of_year - 1, period_num.val) > 0
                 THEN FromDayOfYear(
                          NewStartDayOfYear(start_day_of_year, period_num.val),
                          YearOf(sd.ord))
                 ELSE Ok(sd)

---------------------------------------------------------------------------
(* pd.date_range(start=, end=, freq=period) *)

FreqUnits == {"D", "M", "W"}

\* to_offset(freq): an optional signed count (1 when there is none) and the
\* name of the offset: D is a tick of one day, M the month end, W the week
\* anchored on Sunday; anything else is ValueError
ToOffset(chars) ==
    LET count == ButLast(chars)
        n == IF count = <<>> THEN Ok(1) ELSE PyInt(count)
    IN IF LastChar(chars) \in FreqUnits /\ n.ok
       THEN [ok |-> TRUE, n |-> n.val, unit |-> LastChar(chars), exc |-> "none"]
       ELSE [ok |-> FALSE, n |-> 0, unit |-> "", exc |-> "ValueError"]

\* the number of steps of n days (n # 0) from cur that do not pass ed
TickCount(cur, ed, n) ==
    IF n > 0 /\ Leq(cur, ed)
    THEN ((ed.ord - cur.ord - (IF ed.sec < cur.sec THEN 1 ELSE 0)) \div n) + 1
    ELSE IF n < 0 /\ Leq(ed, cur)
    THEN ((cur.ord - ed.ord - (IF cur.sec < ed.sec THEN 1 ELSE 0)) \div (0 - n)) + 1
    ELSE 0

\* mutant: the end itself is left out
TickRangeExclusive(cur, ed, n) ==
    LET c == TickCount(cur, ed, n)
        open == IF c > 0 /\ AddDays(cur, (c - 1) * n) = ed THEN c - 1 ELSE c
    IN [k \in 1..open |-> AddDays(cur, (k - 1) * n)]

\* the range of a tick frequency of n days (n # 0): start, start + n days, ...
\* not beyond end; with n < 0 it descends from start down to end
TickRange(cur, ed, n) ==
    [k \in 1..TickCount(cur, ed, n) |-> AddDays(cur, (k - 1) * n)]

MonthEnd(y, m, s) == Moment(ToOrdinal(y, m, DaysInMonth(y, m)), s)

\* offset.is_on_offset(t)
OnOffset(unit, t) ==
    IF unit = "M" THEN DayOf(t.ord) = DaysInMonth(YearOf(t.ord), MonthOf(t.ord))
    ELSE Weekday(t.ord) = 6

\* offset.rollforward(t) for t not on the offset
RollForward(unit, t) ==
    IF unit = "M" THEN MonthEnd(YearOf(t.ord), MonthOf(t.ord), t.sec)
    ELSE AddDays(t, 6 - Weekday(t.ord))

\* offset.rollback(t) for t not on the offset
RollBack(unit, t) ==
    IF unit = "M" THEN AddDays(t, 0 - DayOf(t.ord))
    ELSE AddDays(t, 0 - (Weekday(t.ord) + 1))

\* t + n * offset for t on the offset
Apply(unit, n, t) ==
    IF unit = "M"
    THEN LET k == YearOf(t.ord) * 12 + (MonthOf(t.ord) - 1) + n
         IN MonthEnd(k \div 12, (k % 12) + 1, t.sec)
    ELSE AddDays(t, 7 * n)

RECURSIVE Walk(_, _, _, _)
Walk(unit, n, cur, ed) ==
    IF (n > 0 /\ Leq(cur, ed)) \/ (n < 0 /\ Leq(ed, cur))
    THEN <<cur>> \o (IF cur = ed THEN <<>> ELSE Walk(unit, n, Apply(unit, n, cur), ed))
    ELSE <<>>

\* the range of an anchored offset: a start off the offset is rolled forward
\* to it, else an end off the offset is rolled back; a count of 0 cannot
\* advance from start to a later end
AnchoredRange(unit, n, sd, ed) ==
    LET s1 == IF OnOffset(unit, sd) THEN sd ELSE RollForward(unit, sd)
        e1 == IF OnOffset(unit, sd) /\ ~OnOffset(unit, ed)
              THEN RollBack(unit, ed) ELSE ed
    IN IF n = 0 /\ Lt(s1, e1) THEN Raise("ValueError")
       ELSE IF n = 0 THEN Ok(IF s1 = e1 THEN <<s1>> ELSE <<>>)
       ELSE Ok(Walk(unit, n, s1, e1))

\* with freq=None only two of start, end, periods, freq are given: ValueError;
\* a tick of 0 days divides by zero
DateRange(sd, ed, period) ==
    IF IsNone(period) THEN Raise("ValueError")
    ELSE LET freq == ToOffset(Val(period))
         IN IF ~freq.ok THEN Raise(freq.exc)
            ELSE IF freq.unit = "D"
                 THEN (IF freq.n = 0 THEN Raise("ZeroDivisionError")
                       ELSE Ok(TickRange(sd, ed, freq.n)))
                 ELSE AnchoredRange(freq.unit, freq.n, sd, ed)


---------------------------------------------------------------------------
(* The keyword arguments tried *)

Absent == <<>>
Given(v) == <<Some(v)>>
GivenNone == <<None>>

Date(mm, dd, yyyy) == [mm |-> mm, dd |-> dd, yyyy |-> yyyy, hms |-> <<>>]
DateTime(mm, dd, yyyy, h, m, sec) ==
    [mm |-> mm, dd |-> dd, yyyy |-> yyyy, hms |-> <<h, m, sec>>]

\* "%Y-%m-%d"
PatYmd == <<"%Y", "-", "%m", "-", "%d">>
\* "%Y/%j %H:%M:%S"
PatJulianTime == <<"%Y", "/", "%j", " ", "%H", ":", "%M", ":", "%S">>

Patterns == {Absent, GivenNone, Given(PatYmd), Given(PatJulianTime)}

Starts ==
    {Absent} \cup
    { Given(d) : d \in { Date(1, 1, 2020), Date(1, 7, 2020),
                         Date(12, 28, 2019),
                         Date(13, 45, 2020), DateTime(1, 6, 2020, 12, 30, 0),
                         DateTime(1, 7, 2020, 12, 30, 0) } }

Ends ==
    {Absent} \cup
    { Given(d) : d \in { Date(1, 10, 2020), Date(1, 31, 2020), Date(12, 31, 2019),
                         DateTime(1, 20, 2020, 6, 0, 0) } }

Periods ==
    {Absent} \cup
    { Given(c) : c \in { <<"5", "D">>, <<"0", "D">>, <<"-", "5", "D">>, <<"D">>,
                         <<"5", "X">>, <<"1", "0", "0", "D">>, <<"3", "6", "5", "D">>,
                         <<"1", "M">>, <<"1", "W">> } }

Flags == {Absent, Given(TRUE), Given(FALSE)}

\* has_time is given when the date strings carry a time of day
TimeFlags == {Absent, Given(TRUE)}

---------------------------------------------------------------------------
(* DateTimeFilter *)

NoAttrs ==
    [pattern |-> None, start |-> None, end |-> None, period |-> None,
     has_time |-> None, exact_dates |-> None]

RequiredMsg == "Required parameter for DateTimeFilter not provided"
PeriodMsg == "Period is required for DateTimeFilter when both start and end are provided."
InvalidMsg == "Invalid values provided for start or end date to DateTimeFilter"
ErrorMsg == "Error applying DateTimeFilter"
UnknownMsg == "Unknown error applying DateTimeFilter"

\* a required parameter is not in kwargs
MissingRequired(kw) == ~Has(kw, "pattern") \/ ~Has(kw, "start")

\* mutant: the check of period is left out
MissingPeriodUnchecked(kw) == FALSE

\* end is in kwargs and period is not
MissingPeriod(kw) == Has(kw, "end") /\ ~Has(kw, "period")

\* has_time and exact_dates are set to False when they are None
OrFalse(x) == IF IsNone(x) THEN Some(FALSE) ELSE x

Init ==
    /\ kwargs \in [pattern : Patterns, start : Starts, end : Ends,
                   period : Periods, has_time : TimeFlags, exact_dates : Flags]
    /\ obj = "new"
    /\ ctor_err = "none"
    /\ self = NoAttrs
    /\ values = <<>>
    /\ calls = 0
    /\ err = "none"
    /\ start_date = None
    /\ all_dates = <<>>

\* DateTimeFilter(**kwargs)
Construct ==
    /\ obj = "new"
    /\ IF MissingRequired(kwargs) \/ MissingPeriod(kwargs)
       THEN /\ obj' = "failed"
            /\ ctor_err' = (IF MissingRequired(kwargs) THEN RequiredMsg ELSE PeriodMsg)
            /\ UNCHANGED <<self, values>>
       ELSE /\ obj' = "constructed"
            /\ ctor_err' = "none"
            /\ self' = [pattern |-> Get(kwargs, "pattern"),
                        start |-> Get(kwargs, "start"),
                        end |-> Get(kwargs, "end"),
                        period |-> Get(kwargs, "period"),
                        has_time |-> OrFalse(Get(kwargs, "has_time")),
                        exact_dates |-> OrFalse(Get(kwargs, "exact_dates"))]
            /\ values' = <<>>
    /\ UNCHANGED <<kwargs, calls, err, start_date, all_dates>>

\* for dt in all_dates: self.values.append(dt.strftime(self.pattern))
\* the list as the loop leaves it, and the exception that ended it
AppendAll(vals, dates, pattern) ==
    LET raising == {k \in 1..Len(dates) : StrftimeRaises(dates[k], pattern)}
        done == IF raising = {} THEN Len(dates)
                ELSE (CHOOSE k \in raising : \A l \in raising : k <= l) - 1
    IN [values |-> vals \o [k \in 1..done |-> Strftime(dates[k], Val(pattern))],
        exc |-> IF raising = {} THEN "none" ELSE "TypeError"]

\* the GeoEDFError of the second try block
ApplyMsg(exc) == IF exc = "ValueError" THEN ErrorMsg ELSE UnknownMsg

\* the parsed start and end of filter()'s first try block
ParsedStart == ToDatetime(Val(self.start), Val(self.has_time))
ParsedEnd ==
    IF IsNone(self.end) THEN Ok(None)
    ELSE ToDatetime(Val(self.end), Val(self.has_time))

\* self.filter()
Filter ==
    /\ obj = "constructed"
    /\ calls < MaxCalls
    /\ calls' = calls + 1
    /\ IF ~ParsedStart.ok \/ ~ParsedEnd.ok
       THEN /\ err' = InvalidMsg
            /\ start_date' = None
            /\ all_dates' = <<>>
            /\ UNCHANGED values
       ELSE LET aligned == Align(ParsedStart.val, self.period, Val(self.exact_dates))
                range == IF ~aligned.ok THEN Raise(aligned.exc)
                         ELSE IF IsNone(self.end) THEN Ok(<<aligned.val>>)
                         ELSE DateRange(aligned.val, ParsedEnd.val, self.period)
                out == AppendAll(values, range.val, self.pattern)
            IN /\ start_date' = (IF aligned.ok THEN Some(aligned.val)
                                 ELSE Some(ParsedStart.val))
               /\ all_dates' = (IF range.ok THEN range.val ELSE <<>>)
               /\ IF ~range.ok
                  THEN err' = ApplyMsg(range.exc) /\ UNCHANGED values
                  ELSE err' = (IF out.exc = "none" THEN "none" ELSE ApplyMsg(out.exc))
                       /\ values' = out.values
    /\ UNCHANGED <<kwargs, obj, ctor_err, self>>

Next == Construct \/ Filter

Spec == Init /\ [][Next]_vars


---------------------------------------------------------------------------
(* Properties *)

\* filter() has run on the object and parsed start and end
Parsed == obj = "constructed" /\ calls >= 1 /\ ParsedStart.ok /\ ParsedEnd.ok

\* the pattern is a string
StringPattern == ~IsNone(self.pattern)

PeriodIs(chars) == self.period = Some(chars)

ExactDates == Val(self.exact_dates)

\* the period is nD with a positive integer n written in digits
DayPeriod ==
    /\ ~IsNone(self.period)
    /\ LastChar(Val(self.period)) = "D"
    /\ AllDigits(ButLast(Val(self.period)))
    /\ Decimal(ButLast(Val(self.period))) >= 1

DayCount == Decimal(ButLast(Val(self.period)))

\* the period has an unknown unit or a count that is no positive integer
InvalidPeriod ==
    /\ ~IsNone(self.period)
    /\ \/ LastChar(Val(self.period)) \notin FreqUnits
       \/ ~AllDigits(ButLast(Val(self.period)))
       \/ Decimal(ButLast(Val(self.period))) < 1

StartDay == DayOfYear(ParsedStart.val.ord)
StartYear == YearOf(ParsedStart.val.ord)

\* C1: a constructed filter without end whose start parses and whose pattern
\* is a string succeeds, with period absent or present, and values holds
\* exactly the formatted (possibly realigned) start date.
C1_NoEndOneValue ==
    (Parsed /\ StringPattern /\ calls = 1 /\ IsNone(self.end))
        => /\ err = "none"
           /\ values = <<Strftime(Val(start_date), Val(self.pattern))>>

\* C2: a second successful filter() on the same object leaves values as the
\* first call left it.
C2_SecondCallSameValues ==
    [][(calls = 1 /\ calls' = 2 /\ err = "none" /\ err' = "none")
          => values' = values]_vars

C4_Day7RealignsToDay6 ==
    (Parsed /\ StringPattern /\ ~ExactDates /\ PeriodIs(<<"5", "D">>) /\ StartDay = 7)
        => /\ YearOf(Val(start_date).ord) = StartYear
           /\ DayOfYear(Val(start_date).ord) = 6

\* C4 amended: with exact_dates false and period 5D, a start on day 7 of its
\* year is realigned to day 11 of that year, which is the first date
\* enumerated.
C4_Day7RealignsToDay11 ==
    (Parsed /\ ~ExactDates /\ PeriodIs(<<"5", "D">>) /\ StartDay = 7)
        => /\ YearOf(Val(start_date).ord) = StartYear
           /\ DayOfYear(Val(start_date).ord) = 11
           /\ all_dates # <<>> => all_dates[1] = Val(start_date)

\* C4 witness: the start on day 7 was realigned and enumerated
C4_Day7Realigned ==
    /\ Parsed /\ ~ExactDates /\ PeriodIs(<<"5", "D">>) /\ StartDay = 7
    /\ err = "none"
    /\ all_dates # <<>>
    /\ DayOfYear(all_dates[1].ord) = 11

\* C5: with exact_dates false and period nD, when the recomputed ordinal day
\* exceeds the number of days of the start's year, filter() raises and
\* enumerates and produces nothing.
C5_OverflowIsError ==
    (/\ Parsed /\ StringPattern /\ calls = 1 /\ ~ExactDates /\ DayPeriod
     /\ (StartDay - 1) % DayCount > 0
     /\ Ceil(StartDay - 1, DayCount) * DayCount + 1 > DaysInYear(StartYear))
        => err # "none" /\ all_dates = <<>> /\ values = <<>>

\* C6: a period with an unknown unit or a count that is no positive integer
\* makes filter() raise and produce nothing, with or without end, whatever
\* exact_dates is.
C6_InvalidPeriodRejected ==
    (Parsed /\ StringPattern /\ calls = 1 /\ InvalidPeriod) => err # "none" /\ values = <<>>


\* C7: with end given and period nD (n >= 1), the first successful filter()
\* leaves in values exactly the formatted dates s, s + n days, s + 2n days, ...
\* that are not after end, in increasing order, s being the (possibly
\* realigned) start: none when end precedes s, end itself when it is on a
\* step.  Start 01/01/2020, end 01/10/2020, period 5D, exact_dates true and
\* pattern %Y-%m-%d give 2020-01-01, 2020-01-06.
C7_DayEnumeration ==
    (Parsed /\ calls = 1 /\ err = "none" /\ ~IsNone(self.end) /\ DayPeriod)
        => LET s == Val(start_date)
               e == ParsedEnd.val
               L == Len(values)
           IN /\ Len(all_dates) = L
              /\ \A k \in 1..L :
                    /\ all_dates[k] = AddDays(s, (k - 1) * DayCount)
                    /\ Leq(all_dates[k], e)
                    /\ values[k] = Strftime(all_dates[k], Val(self.pattern))
              /\ \A k \in 1..(L - 1) : Lt(all_dates[k], all_dates[k + 1])
              /\ ~Leq(AddDays(s, L * DayCount), e)
              /\ (/\ self.start = Some(Date(1, 1, 2020))
                  /\ self.end = Some(Date(1, 10, 2020))
                  /\ PeriodIs(<<"5", "D">>) /\ ExactDates
                  /\ self.pattern = Some(PatYmd))
                     => values = <<"2020-01-01", "2020-01-06">>

\* C7 witness: a range whose last date is the end date itself
C7_EndOnStep ==
    /\ Parsed /\ calls = 1 /\ err = "none" /\ ~IsNone(self.end) /\ DayPeriod
    /\ Len(values) >= 3
    /\ all_dates[Len(all_dates)] = ParsedEnd.val
    /\ values[Len(values)] = "2020-01-31"

\* C8: when exact_dates is true or the unit of the period is not D, the
\* first date enumerated is the parsed start date, unchanged in date and time.
C8_FirstIsParsedStart ==
    (/\ Parsed /\ StringPattern /\ err = "none"
     /\ ExactDates \/ IsNone(self.period) \/ LastChar(Val(self.period)) # "D"
     /\ all_dates # <<>>)
        => all_dates[1] = ParsedStart.val

\* C9: __init__ raises exactly when pattern or start is not given or end is
\* given without period (the period error when only period is missing),
\* whatever the date strings are, and then filter() never runs and values
\* stays empty; when it succeeds, has_time and exact_dates not given are
\* False and values is empty.
C9_ValidationAtConstruction ==
    obj # "new"
        => LET required == kwargs.pattern # <<>> /\ kwargs.start # <<>>
               period == kwargs.end # <<>> => kwargs.period # <<>>
           IN /\ obj = "failed" <=> ~(required /\ period)
              /\ ~required => ctor_err = RequiredMsg
              /\ (required /\ ~period) => ctor_err = PeriodMsg
              /\ obj = "failed"
                    => values = <<>> /\ calls = 0 /\ err = "none" /\ self = NoAttrs
              /\ obj = "constructed"
                    => /\ ctor_err = "none"
                       /\ kwargs.has_time = <<>> => self.has_time = Some(FALSE)
                       /\ kwargs.exact_dates = <<>> => self.exact_dates = Some(FALSE)
                       /\ calls = 0 => values = <<>>

\* C9 witness: end without period is refused although start does not parse
C9_PeriodMissingBadStart ==
    /\ obj = "failed"
    /\ ctor_err = PeriodMsg
    /\ kwargs.start = Given(Date(13, 45, 2020))
    /\ kwargs.end # <<>>

\* C10: with exact_dates false and period nD (n >= 1), when the least day
\* d' >= d of the start's year Y with (d' - 1) mod n = 0 lies within Y, the
\* start date filter() goes on with, and the first date enumerated, is day d'
\* of Y: the parsed start itself when d' = d, else
\* d' = ceil((d - 1) / n) * n + 1 with d < d' < d + n, at midnight.
C10_ForwardSnap ==
    (Parsed /\ ~ExactDates /\ DayPeriod)
        => LET d == StartDay
               n == DayCount
               snap == CHOOSE x \in d..(d + n - 1) : (x - 1) % n = 0
               s == Val(start_date)
           IN snap <= DaysInYear(StartYear)
                 => /\ YearOf(s.ord) = StartYear
                    /\ DayOfYear(s.ord) = snap
                    /\ snap = d => s = ParsedStart.val
                    /\ snap # d => /\ s.sec = 0
                                   /\ d < snap /\ snap < d + n
                                   /\ snap = Ceil(d - 1, n) * n + 1
                    /\ all_dates # <<>> => all_dates[1] = s

\* C10 witness: a start with a time of day off the grid was moved forward
\* and reset to midnight
C10_SnappedToMidnight ==
    /\ Parsed /\ ~ExactDates /\ DayPeriod /\ err = "none"
    /\ ParsedStart.val.sec # 0
    /\ StartDay = 7
    /\ all_dates # <<>>
    /\ all_dates[1] = Moment(ToOrdinal(2020, 1, 11), 0)

=============================================================================
